---- MODULE Spec2Model ----
(***************************************************************************)
(* FirstCry monitor (monitor_firstcry.py): the fetch retry loop, the       *)
(* four-tier HTML extractor, and main's change detection against the       *)
(* sqlite store with its notification decision.                            *)
(*                                                                         *)
(* Strings are sequences of tokens.  Every token is one character, except  *)
(* the marker words "hotwheels", "product", "javascript" and "JAVASCRIPT", *)
(* which stand for those character runs; the string a sequence denotes is  *)
(* the concatenation of its tokens.  The alphabet holds no ':', '#' or     *)
(* ';', so every href is a relative reference for urlparse.                *)
(***************************************************************************)
EXTENDS Integers, Sequences, FiniteSets, TLC

\* ------------------------------------------------------------------ bounds
MaxElems == 3       \* elements of a document given to the extractor alone
MaxClock == 2       \* the clock stops advancing here (runs go on)
MaxRetries == 2     \* largest retries argument tried on the fetch loop
MaxBackoff == 2     \* largest backoff argument tried on the fetch loop

\* ------------------------------------------------------- program constants
DefaultRetries == 2
DefaultBackoff == 2
MinHtmlLen == 100
MinTextLen == 4

\* ----------------------------------------------------------------- strings
MinOf(S) == CHOOSE i \in S : \A j \in S : i <= j

\* least index >= from whose token is in toks, Len(s)+1 when there is none
FirstAt(s, toks, from) ==
    LET c == {i \in from..Len(s) : s[i] \in toks}
    IN IF c = {} THEN Len(s) + 1 ELSE MinOf(c)

TokLen(t) ==
    CASE t = "hotwheels" -> 9
      [] t = "product" -> 7
      [] t = "javascript" -> 10
      [] t = "JAVASCRIPT" -> 10
      [] OTHER -> 1

RECURSIVE StrLen(_)
StrLen(s) == IF s = <<>> THEN 0 ELSE TokLen(Head(s)) + StrLen(Tail(s))

\* str.strip(): leading and trailing whitespace removed
RECURSIVE LStrip(_)
LStrip(s) == IF s # <<>> /\ Head(s) = " " THEN LStrip(Tail(s)) ELSE s

RECURSIVE RStrip(_)
RStrip(s) ==
    IF s # <<>> /\ s[Len(s)] = " " THEN RStrip(SubSeq(s, 1, Len(s) - 1)) ELSE s

Strip(s) == RStrip(LStrip(s))

\* str.split(d): the pieces between occurrences of d, at least one piece
RECURSIVE SplitOn(_, _)
SplitOn(s, d) ==
    LET k == FirstAt(s, {d}, 1)
    IN IF k > Len(s) THEN <<s>>
       ELSE <<SubSeq(s, 1, k - 1)>> \o SplitOn(SubSeq(s, k + 1, Len(s)), d)

NonEmptyPieces(ps) == SelectSeq(ps, LAMBDA p : p # <<>>)

\* d.join(ps)
RECURSIVE JoinWith(_, _)
JoinWith(ps, d) ==
    IF ps = <<>> THEN <<>>
    ELSE IF Len(ps) = 1 THEN ps[1]
    ELSE ps[1] \o <<d>> \o JoinWith(Tail(ps), d)

\* " ".join(text.split())
Collapse(text) == JoinWith(NonEmptyPieces(SplitOn(text, " ")), " ")

\* marker in s: marker is a contiguous run of s
Contains(s, marker) ==
    \E i \in 1..(Len(s) - Len(marker) + 1) :
        SubSeq(s, i, i + Len(marker) - 1) = marker

\* urlparse(href).path of a reference with no scheme: a leading "//" opens a
\* network location that runs to the next '/' or '?'; the path then runs to
\* the first '?'
UrlPath(href) ==
    LET hasNetloc == Len(href) >= 2 /\ href[1] = "/" /\ href[2] = "/"
        rest == IF hasNetloc
                THEN SubSeq(href, FirstAt(href, {"/", "?"}, 3), Len(href))
                ELSE href
    IN SubSeq(rest, 1, FirstAt(rest, {"?"}, 1) - 1)

\* str.lower(): the alphabet's upper-case tokens
LowerTok(t) ==
    CASE t = "JAVASCRIPT" -> "javascript"
      [] t = "A" -> "a"
      [] OTHER -> t

Lower(s) == [i \in 1..Len(s) |-> LowerTok(s[i])]

HotwheelsMarker == <<"/", "hotwheels", "/">>
ProductMarker == <<"/", "product", "/">>
JavascriptMarker == <<"javascript">>

\* --------------------------------------------------------------- documents
\* A parsed document is the sequence of its top-level elements; an element
\* with children is a tile whose children are leaves.  A leaf holds one text
\* node (text = <<>>: none).
Node(tag, hasHref, href, hasPid, pid, cls, text, kids) ==
    [tag |-> tag, hasHref |-> hasHref, href |-> href, hasPid |-> hasPid,
     pid |-> pid, cls |-> cls, text |-> text, kids |-> kids]

Anchor(href, text) == Node("a", TRUE, href, FALSE, <<>>, "", text, <<>>)
Leaf(tag, cls, text) == Node(tag, FALSE, <<>>, FALSE, <<>>, cls, text, <<>>)
Tile(pid, kids) == Node("div", FALSE, <<>>, TRUE, pid, "", <<>>, kids)

\* document order: every element, then its children
RECURSIVE Flatten(_)
Flatten(doc) ==
    IF doc = <<>> THEN <<>>
    ELSE <<Head(doc)>> \o Head(doc).kids \o Flatten(Tail(doc))

\* soup.find_all("a", href=True)
FindAllAnchors(doc) ==
    SelectSeq(Flatten(doc), LAMBDA n : n.tag = "a" /\ n.hasHref)

\* soup.select("[data-product-id]")
SelectTiles(doc) == SelectSeq(Flatten(doc), LAMBDA n : n.hasPid)

\* element.get_text(strip=True) of a leaf
GetText(n) == Strip(n.text)

\* tile.select_one("a") or .product-name or h2 or h3: the title element's
\* text, "" when the tile has none of them
TileTitle(tile) ==
    LET as == SelectSeq(tile.kids, LAMBDA k : k.tag = "a")
        names == SelectSeq(tile.kids, LAMBDA k : k.cls = "product-name")
        h2s == SelectSeq(tile.kids, LAMBDA k : k.tag = "h2")
        h3s == SelectSeq(tile.kids, LAMBDA k : k.tag = "h3")
    IN IF as # <<>> THEN GetText(as[1])
       ELSE IF names # <<>> THEN GetText(names[1])
       ELSE IF h2s # <<>> THEN GetText(h2s[1])
       ELSE IF h3s # <<>> THEN GetText(h3s[1])
       ELSE <<>>

\* --------------------------------------------------------------- extractor
\* pid of a link: the last non-empty path segment, the path when none
LinkPid(href) ==
    LET path == UrlPath(href)
        parts == NonEmptyPieces(SplitOn(path, "/"))
    IN IF parts # <<>> THEN parts[Len(parts)] ELSE path

\* the candidate pairs one anchor adds in a link tier (primary, secondary)
LinkCandidate(a, marker) ==
    LET href == Strip(a.href)
        text == GetText(a)
    IN IF text = <<>> THEN <<>>
       ELSE IF Contains(href, marker) THEN <<<<LinkPid(href), Collapse(text)>>>>
       ELSE <<>>

RECURSIVE LinkTier(_, _)
LinkTier(anchors, marker) ==
    IF anchors = <<>> THEN <<>>
    ELSE LinkCandidate(Head(anchors), marker) \o LinkTier(Tail(anchors), marker)

TileCandidate(tile) ==
    IF tile.pid # <<>> THEN <<<<Strip(tile.pid), Strip(TileTitle(tile))>>>>
    ELSE <<>>

RECURSIVE TileTier(_)
TileTier(tiles) ==
    IF tiles = <<>> THEN <<>>
    ELSE TileCandidate(Head(tiles)) \o TileTier(Tail(tiles))

FallbackPid(href) ==
    LET segs == SplitOn(UrlPath(href), "/")
        last == segs[Len(segs)]
        cut == SplitOn(last, "?")[1]
    IN IF cut # <<>> THEN cut ELSE href

FallbackCandidate(a) ==
    LET href == Strip(a.href)
        text == GetText(a)
    IN IF text = <<>> \/ StrLen(text) < MinTextLen THEN <<>>
       ELSE IF Contains(Lower(href), JavascriptMarker) THEN <<>>
       ELSE <<<<FallbackPid(href), text>>>>

RECURSIVE FallbackTier(_)
FallbackTier(anchors) ==
    IF anchors = <<>> THEN <<>>
    ELSE FallbackCandidate(Head(anchors)) \o FallbackTier(Tail(anchors))

PrimaryTier(doc) == LinkTier(FindAllAnchors(doc), HotwheelsMarker)
SecondaryTier(doc) == LinkTier(FindAllAnchors(doc), ProductMarker)
TertiaryTier(doc) == TileTier(SelectTiles(doc))
FinalTier(doc) == FallbackTier(FindAllAnchors(doc))

\* the candidate list after the four "if not products" stages
Candidates(doc) ==
    IF PrimaryTier(doc) # <<>> THEN PrimaryTier(doc)
    ELSE IF SecondaryTier(doc) # <<>> THEN SecondaryTier(doc)
    ELSE IF TertiaryTier(doc) # <<>> THEN TertiaryTier(doc)
    ELSE FinalTier(doc)

Pids(ps) == {ps[i][1] : i \in 1..Len(ps)}

RECURSIVE DedupKeepLast(_, _)
DedupKeepLast(unique, ps) ==
    IF ps = <<>> THEN unique
    ELSE IF Head(ps)[1] = <<>> THEN DedupKeepLast(unique, Tail(ps))
    ELSE IF Head(ps)[1] \in Pids(unique)
         THEN DedupKeepLast(
                  [i \in 1..Len(unique) |->
                      IF unique[i][1] = Head(ps)[1] THEN Head(ps) ELSE unique[i]],
                  Tail(ps))
         ELSE DedupKeepLast(Append(unique, Head(ps)), Tail(ps))

\* the dict pass: a pair is kept when its pid is non-empty and not yet a key
RECURSIVE DedupInto(_, _)
DedupInto(unique, ps) ==
    IF ps = <<>> THEN unique
    ELSE IF Head(ps)[1] # <<>> /\ Head(ps)[1] \notin Pids(unique)
         THEN DedupInto(Append(unique, Head(ps)), Tail(ps))
         ELSE DedupInto(unique, Tail(ps))

NoDedup(ps) == ps

Dedup(ps) == DedupInto(<<>>, ps)

parse_products_from_html(doc) == Dedup(Candidates(doc))

\* ------------------------------------------------------------------ inputs
S1 == <<"1">>
TxtA == <<"a">>
TxtB == <<"b">>
HrefHot1 == <<"/", "hotwheels", "/", "1">>
HrefHot2 == <<"/", "hotwheels", "/", "2">>
HrefHot9 == <<"/", "hotwheels", "/", "9">>
HrefProd2 == <<"/", "product", "/", "2">>

ElHot1 == Anchor(HrefHot1, TxtA)
ElHot1Again == Anchor(HrefHot1 \o <<"/">>, <<" ", "b", " ", " ", "a", " ">>)
ElHot2 == Anchor(HrefHot2, TxtB)
ElHot9 == Anchor(HrefHot9, TxtA)
ElHotNoPath == Anchor(<<"?", "/", "hotwheels", "/">>, TxtA)
ElHotNetloc == Anchor(<<"/", "/", "hotwheels", "/", "2">>, TxtB)
ElProd2 == Anchor(HrefProd2, TxtA)
ElTile2 == Tile(<<" ", "2", " ">>,
                <<Leaf("h2", "", TxtB), Leaf("span", "product-name", TxtA)>>)
ElTileBlank == Tile(<<" ">>, <<>>)
ElAny2 == Anchor(<<"/", "a", "/", "2", "?", "1">>, <<"a", "b", "a", "b">>)
ElAnyDir == Anchor(<<"/", "a", "/">>, <<"a", "b", " ", "a">>)
ElScript == Anchor(<<"JAVASCRIPT", "?", "1">>, <<"a", "b", "a", "b">>)
ElShort == Anchor(<<"/", "a", "/", "1">>, <<"a", "b">>)

\* the elements a document given to the extractor is built from
Elems ==
    {ElHot1, ElHot1Again, ElHotNoPath, ElHotNetloc, ElProd2, ElTile2,
     ElTileBlank, ElAny2, ElAnyDir, ElScript, ElShort}

Docs == UNION {[1..n -> Elems] : n \in 0..MaxElems}

\* the documents a run of main may fetch
MainDocs ==
    {<<>>, <<ElHot1>>, <<ElHot2>>, <<ElHot1, ElHot2>>, <<ElHot1Again, ElHot1>>,
     <<ElProd2>>, <<ElHotNoPath, ElProd2>>, <<ElHot2, ElHot1, ElHot1Again>>,
     <<ElHot1, ElHot2, ElHot9>>}

\* parse_products_from_html on each of them, tabulated
MainProducts == [d \in MainDocs |-> parse_products_from_html(d)]

Body(size, doc) == [size |-> size, doc |-> doc]

\* response bodies: empty, one character short of the threshold, and long
\* enough with each document
MainBodies ==
    {Body(0, <<>>), Body(MinHtmlLen - 1, <<>>)}
        \cup {Body(MinHtmlLen, d) : d \in MainDocs}

\* ------------------------------------------------------------------- store
Row(id, title, seen) == [product_id |-> id, title |-> title, last_seen |-> seen]

RowIds(rows) == {r.product_id : r \in rows}

\* SELECT product_id FROM products WHERE product_id = ?
StoreContains(rows, id) == \E r \in rows : r.product_id = id

\* SELECT COUNT(*) FROM products
CountRows(rows) == Cardinality(rows)

\* INSERT OR REPLACE under the PRIMARY KEY: a row with the key gives way
InsertOrReplace(rows, id, title, seen) ==
    {r \in rows : r.product_id # id} \cup {Row(id, title, seen)}

\* UPDATE products SET last_seen = ? WHERE product_id = ?
TouchKeepsStamp(rows, id, seen) == rows

TouchReplacesRow(rows, id, seen) ==
    {IF r.product_id = id THEN Row(id, <<>>, seen) ELSE r : r \in rows}

Touch(rows, id, seen) ==
    {IF r.product_id = id THEN [r EXCEPT !.last_seen = seen] ELSE r : r \in rows}

\* what is on disk after a statement ran on the connection: sqlite3.connect
\* with the default isolation level opens a transaction, nothing is durable
DurableAfterExecuteAuto(durable, view) == view

DurableAfterExecute(durable, view) == durable

\* what is on disk after conn.commit()
DurableAfterCommitNone(durable, view) == durable

DurableAfterCommit(durable, view) == view

\* a database found at DB_PATH when the first run starts
SeedRows == {Row(S1, TxtB, 0), Row(<<"9">>, TxtA, 0)}
InitStores == SUBSET SeedRows

\* ------------------------------------------------------------ notification
NotificationKindCountFirst(new, curr, prev) ==
    IF curr > prev THEN "count"
    ELSE IF new # <<>> THEN "new"
    ELSE "none"

\* the if / elif / else of main
NotificationKind(new, curr, prev) ==
    IF new # <<>> THEN "new"
    ELSE IF curr > prev THEN "count"
    ELSE "none"

\* the body lines of the itemized mail: title, then id, per new record
ItemLines(new) == [i \in 1..Len(new) |-> [title |-> new[i][2], id |-> new[i][1]]]

MailBody(kind, new, curr, prev) ==
    IF kind = "new" THEN [count |-> Len(new), lines |-> ItemLines(new)]
    ELSE [prev |-> prev, curr |-> curr]

SendOutcomes == {"sent", "skipped", "failed"}

\* how main ends once the handler's own send_email has ended
HandlerResultPropagates(outcome) ==
    IF outcome = "failed" THEN "propagated" ELSE "returned"

HandlerResult(outcome) == "returned"

BackoffWaitFlat(b, attemptNo) == b

\* wait = backoff * attempt
BackoffWait(b, attemptNo) == b * attemptNo

\* ------------------------------------------------------------------- state
VARIABLES
    pc,          \* where the run (or the fetch, or the extractor) stands
    clock,       \* int(time.time()) as last read
    store,       \* the rows of products on disk
    txn,         \* the rows as the run's connection sees them
    retries,     \* requests_get_with_retry's retries argument
    backoff,     \* requests_get_with_retry's backoff argument
    attempt,     \* its loop variable
    outcomes,    \* how each GET of this call ended, in order
    waits,       \* the time.sleep arguments of this call, in order
    last_exc,    \* its last_exc
    html,        \* the fetched body: its length and its parsed document
    products,    \* main's products
    idx,         \* position of main's loop in products
    now,         \* main's now
    prev_count,  \* main's prev_count
    curr_count,  \* main's curr_count
    new_found,   \* main's new_found
    emails,      \* the send_email calls of this run, in order
    exc,         \* the exception main's handler caught, "none" without one
    result,      \* "running", then how main ended
    store0,      \* the rows on disk when this run started
    committed,   \* this run reached conn.commit()
    listed,      \* ids some run's itemized mail has listed
    relisted,    \* ids the itemized mails of two runs have listed
    unsent,      \* ids listed in an itemized mail whose send failed
    seenAt,      \* id -> now of the latest committed run that extracted it
    initIds      \* the ids on disk before the first run

cfgVars == <<retries, backoff>>
fetchVars == <<attempt, outcomes, waits, last_exc>>
runVars == <<products, idx, now, prev_count, curr_count, new_found>>
outVars == <<emails, exc, result>>
histVars == <<store0, committed, listed, relisted, unsent, seenAt, initIds>>
vars ==
    <<pc, clock, store, txn, retries, backoff, attempt, outcomes, waits,
      last_exc, html, products, idx, now, prev_count, curr_count, new_found,
      emails, exc, result, store0, committed, listed, relisted, unsent,
      seenAt, initIds>>

NoBody == Body(0, <<>>)

\* the locals of a run before main has set them
FreshRun ==
    /\ html = NoBody /\ products = <<>> /\ idx = 0 /\ now = 0
    /\ prev_count = 0 /\ curr_count = 0 /\ new_found = <<>>
    /\ emails = <<>> /\ exc = "none" /\ result = "running"

FreshHistory ==
    /\ committed = FALSE /\ listed = {} /\ relisted = {} /\ unsent = {}
    /\ seenAt = <<>>

\* before the scheduler's first invocation, with any database at DB_PATH
Init ==
    /\ pc = "idle"
    /\ clock = 0
    /\ store \in InitStores
    /\ txn = store
    /\ store0 = store
    /\ initIds = RowIds(store)
    /\ retries = DefaultRetries
    /\ backoff = DefaultBackoff
    /\ attempt = 0 /\ outcomes = <<>> /\ waits = <<>> /\ last_exc = "none"
    /\ FreshRun
    /\ FreshHistory

\* a call of requests_get_with_retry with any arguments
InitFetch ==
    /\ pc = "fetch"
    /\ clock = 0
    /\ store = {} /\ txn = {} /\ store0 = {} /\ initIds = {}
    /\ retries \in 0..MaxRetries
    /\ backoff \in 0..MaxBackoff
    /\ attempt = 1 /\ outcomes = <<>> /\ waits = <<>> /\ last_exc = "none"
    /\ FreshRun
    /\ FreshHistory

\* a call of parse_products_from_html with any document
InitParse ==
    /\ pc = "extract"
    /\ clock = 0
    /\ store = {} /\ txn = {} /\ store0 = {} /\ initIds = {}
    /\ retries = DefaultRetries
    /\ backoff = DefaultBackoff
    /\ attempt = 0 /\ outcomes = <<>> /\ waits = <<>> /\ last_exc = "none"
    /\ html \in {Body(MinHtmlLen, d) : d \in Docs}
    /\ products = <<>> /\ idx = 0 /\ now = 0
    /\ prev_count = 0 /\ curr_count = 0 /\ new_found = <<>>
    /\ emails = <<>> /\ exc = "none" /\ result = "running"
    /\ FreshHistory

\* ------------------------------------------------------------------- fetch
FetchErrors == {"ConnectionError", "HTTPError"}

\* requests.get answered 2xx: return r
AttemptOk ==
    /\ pc = "fetch"
    /\ \E body \in MainBodies : html' = body
    /\ outcomes' = Append(outcomes, "ok")
    /\ pc' = "fetch_ret"
    /\ UNCHANGED <<clock, store, txn, cfgVars, attempt, waits, last_exc,
                   runVars, outVars, histVars>>

\* requests.get or raise_for_status raised: sleep and go round, or re-raise
AttemptFail ==
    /\ pc = "fetch"
    /\ \E e \in FetchErrors :
        /\ last_exc' = e
        /\ outcomes' = Append(outcomes, e)
    /\ IF attempt <= retries
       THEN /\ waits' = Append(waits, BackoffWait(backoff, attempt))
            /\ attempt' = attempt + 1
            /\ pc' = "fetch"
       ELSE /\ pc' = "fetch_raise"
            /\ UNCHANGED <<waits, attempt>>
    /\ UNCHANGED <<clock, store, txn, cfgVars, html, runVars, outVars, histVars>>

FetchNext == AttemptOk \/ AttemptFail

\* --------------------------------------------------------------- extractor
\* products = parse_products_from_html(html_text), called alone
Extract ==
    /\ pc = "extract"
    /\ products' = parse_products_from_html(html.doc)
    /\ pc' = "extracted"
    /\ UNCHANGED <<clock, store, txn, cfgVars, fetchVars, html, idx, now,
                   prev_count, curr_count, new_found, outVars, histVars>>

\* -------------------------------------------------------------------- main
\* the scheduler starts main
Invoke ==
    /\ pc \in {"idle", "done"}
    /\ pc' = "ensure_db"
    /\ store0' = store
    /\ committed' = FALSE
    /\ txn' = store
    /\ attempt' = 0 /\ outcomes' = <<>> /\ waits' = <<>> /\ last_exc' = "none"
    /\ html' = NoBody /\ products' = <<>> /\ idx' = 0 /\ now' = 0
    /\ prev_count' = 0 /\ curr_count' = 0 /\ new_found' = <<>>
    /\ emails' = <<>> /\ exc' = "none" /\ result' = "running"
    /\ UNCHANGED <<clock, store, cfgVars, listed, relisted, unsent, seenAt,
                   initIds>>

\* conn = ensure_db(): CREATE TABLE IF NOT EXISTS and its commit
EnsureDb ==
    /\ pc = "ensure_db"
    /\ txn' = store
    /\ attempt' = 1
    /\ pc' = "fetch"
    /\ UNCHANGED <<clock, store, cfgVars, outcomes, waits, last_exc, html,
                   runVars, outVars, histVars>>

\* fetch_search_html returns r.text
FetchReturn ==
    /\ pc = "fetch_ret"
    /\ pc' = "check"
    /\ attempt' = 0 /\ outcomes' = <<>> /\ waits' = <<>> /\ last_exc' = "none"
    /\ UNCHANGED <<clock, store, txn, cfgVars, html, runVars, outVars, histVars>>

\* the last attempt's error reaches main's handler
FetchRaise ==
    /\ pc = "fetch_raise"
    /\ exc' = last_exc
    /\ pc' = "except"
    /\ attempt' = 0 /\ outcomes' = <<>> /\ waits' = <<>> /\ last_exc' = "none"
    /\ UNCHANGED <<clock, store, txn, cfgVars, html, runVars, emails, result,
                   histVars>>

\* if not html_text or len(html_text) < 100: raise RuntimeError
SizeCheck ==
    /\ pc = "check"
    /\ IF html.size < MinHtmlLen
       THEN exc' = "RuntimeError" /\ pc' = "except"
       ELSE exc' = exc /\ pc' = "parse"
    /\ UNCHANGED <<clock, store, txn, cfgVars, fetchVars, html, runVars,
                   emails, result, histVars>>

\* products = parse_products_from_html(html_text)
Parse ==
    /\ pc = "parse"
    /\ products' = MainProducts[html.doc]
    /\ pc' = "count"
    /\ UNCHANGED <<clock, store, txn, cfgVars, fetchVars, html, idx, now,
                   prev_count, curr_count, new_found, outVars, histVars>>

\* now = int(time.time()); prev_count = SELECT COUNT(*); new_found = []
Count ==
    /\ pc = "count"
    /\ \E t \in {clock, clock + 1} :
        /\ t <= MaxClock
        /\ now' = t
        /\ clock' = t
    /\ prev_count' = CountRows(txn)
    /\ new_found' = <<>>
    /\ idx' = 1
    /\ pc' = "loop"
    /\ UNCHANGED <<store, txn, cfgVars, fetchVars, html, products, curr_count,
                   outVars, histVars>>

\* one round of "for pid, title in products"
LoopStep ==
    /\ pc = "loop"
    /\ idx <= Len(products)
    /\ LET pid == products[idx][1]
           title == products[idx][2]
       IN IF ~StoreContains(txn, pid)
          THEN /\ txn' = InsertOrReplace(txn, pid, title, now)
               /\ new_found' = Append(new_found, <<pid, title>>)
          ELSE /\ txn' = Touch(txn, pid, now)
               /\ new_found' = new_found
    /\ store' = DurableAfterExecute(store, txn')
    /\ idx' = idx + 1
    /\ UNCHANGED <<pc, clock, cfgVars, fetchVars, html, products, now,
                   prev_count, curr_count, outVars, histVars>>

\* conn.commit(); curr_count = len(products)
Commit ==
    /\ pc = "loop"
    /\ idx > Len(products)
    /\ store' = DurableAfterCommit(store, txn)
    /\ committed' = TRUE
    /\ curr_count' = Len(products)
    /\ seenAt' = [id \in (DOMAIN seenAt) \cup Pids(products) |->
                    IF id \in Pids(products) THEN now ELSE seenAt[id]]
    /\ pc' = "decide"
    /\ UNCHANGED <<clock, txn, cfgVars, fetchVars, html, products, idx, now,
                   prev_count, new_found, outVars, store0, listed, relisted,
                   unsent, initIds>>

\* the notification decision and its send_email, then "Run complete."
Notify ==
    /\ pc = "decide"
    /\ LET kind == NotificationKind(new_found, curr_count, prev_count)
       IN IF kind = "none"
          THEN /\ pc' = "done"
               /\ result' = "returned"
               /\ txn' = store
               /\ UNCHANGED <<emails, exc, listed, relisted, unsent>>
          ELSE /\ \E o \in SendOutcomes :
                    /\ emails' = Append(emails,
                                    [kind |-> kind, outcome |-> o,
                                     body |-> MailBody(kind, new_found,
                                                       curr_count, prev_count)])
                    /\ IF o = "failed"
                       THEN /\ exc' = "SMTPException"
                            /\ pc' = "except"
                            /\ UNCHANGED <<result, txn>>
                       ELSE /\ pc' = "done"
                            /\ result' = "returned"
                            /\ txn' = store
                            /\ exc' = exc
                    /\ unsent' = IF kind = "new" /\ o = "failed"
                                 THEN unsent \cup Pids(new_found)
                                 ELSE unsent
               /\ IF kind = "new"
                  THEN /\ relisted' = relisted \cup (Pids(new_found) \cap listed)
                       /\ listed' = listed \cup Pids(new_found)
                  ELSE UNCHANGED <<listed, relisted>>
    /\ UNCHANGED <<clock, store, cfgVars, fetchVars, html, runVars, store0,
                   committed, seenAt, initIds>>

\* a statement of the try block raises: the schema, the parser, the store
Raise ==
    /\ pc \in {"ensure_db", "parse", "count", "loop"}
    /\ exc' = "Exception"
    /\ pc' = "except"
    /\ UNCHANGED <<clock, store, txn, cfgVars, fetchVars, html, runVars,
                   emails, result, histVars>>

\* except Exception: the error mail, its failure passed over; main returns
\* and the connection goes, with whatever it had not committed
Except ==
    /\ pc = "except"
    /\ \E o \in SendOutcomes :
        /\ emails' = Append(emails,
                        [kind |-> "error", outcome |-> o, body |-> exc])
        /\ result' = HandlerResult(o)
    /\ txn' = store
    /\ pc' = "done"
    /\ UNCHANGED <<clock, store, cfgVars, fetchVars, html, runVars, exc,
                   histVars>>

MainNext ==
    \/ Invoke \/ EnsureDb \/ FetchReturn \/ FetchRaise \/ SizeCheck \/ Parse
    \/ Count \/ LoopStep \/ Commit \/ Notify \/ Raise \/ Except

Next == FetchNext \/ MainNext

\* runs of main, one after the other
Spec == Init /\ [][Next]_vars

\* the same, every enabled step eventually taken
FairSpec == Init /\ [][Next]_vars /\ WF_vars(Next)

\* requests_get_with_retry alone, over its arguments
SpecFetch == InitFetch /\ [][FetchNext]_vars

\* parse_products_from_html alone, over its documents
SpecParse == InitParse /\ [][Extract]_vars

\* ------------------------------------------------------------------ claims
\* the records of ps whose id was not on disk when the run started
NewOf(ps) == SelectSeq(ps, LAMBDA p : p[1] \notin RowIds(store0))

\* rows0 after a run that extracted ps at time t: a known id keeps its title
\* and takes the stamp, a new one is added, every other row stays
ExpectedRows(rows0, ps, t) ==
    {r \in rows0 : r.product_id \notin Pids(ps)}
        \cup {[r EXCEPT !.last_seen = t] :
                r \in {q \in rows0 : q.product_id \in Pids(ps)}}
        \cup {Row(ps[i][1], ps[i][2], t) :
                i \in {j \in 1..Len(ps) : ps[j][1] \notin RowIds(rows0)}}

\* the mails of this run other than the handler's error mail
NormalMails == SelectSeq(emails, LAMBDA m : m.kind # "error")
ErrorMails == SelectSeq(emails, LAMBDA m : m.kind = "error")

\* the run has passed its notification decision
DecisionTaken == committed /\ pc \in {"except", "done"}

\* C1: a run's new_found is the extracted records whose id was absent from
\* the store at the start of the run, in extraction order; prev_count is the
\* row count before the run's inserts; curr_count is the number of extracted
\* records; a new record is stored with its title and the run's timestamp, a
\* known one only has last_seen set to it, its title unchanged.
ChangeDetection ==
    /\ pc = "loop" =>
        /\ new_found = NewOf(SubSeq(products, 1, idx - 1))
        /\ prev_count = Cardinality(store0)
        /\ txn = ExpectedRows(store0, SubSeq(products, 1, idx - 1), now)
    /\ committed =>
        /\ new_found = NewOf(products)
        /\ prev_count = Cardinality(store0)
        /\ curr_count = Len(products)
        /\ store = ExpectedRows(store0, products, now)

\* a committed run with a new record, a known record whose extracted title
\* differs from the stored one, and a row count that differs from curr_count
ChangeDetectionWitness ==
    /\ committed
    /\ new_found # <<>>
    /\ \E i \in 1..Len(products) : \E r \in store0 :
          r.product_id = products[i][1] /\ r.title # products[i][2]
    /\ Cardinality(store) # curr_count

\* C2: a run that reaches the decision makes at most one notification: the
\* itemized one (id and title of every new record, in order) when new_found
\* is non-empty, else the count one when curr_count > prev_count, else none.
NotificationDecision ==
    /\ Len(NormalMails) <= 1
    /\ ~DecisionTaken => NormalMails = <<>>
    /\ DecisionTaken =>
        IF new_found # <<>>
        THEN /\ Len(NormalMails) = 1
             /\ NormalMails[1].kind = "new"
             /\ NormalMails[1].body.count = Len(new_found)
             /\ NormalMails[1].body.lines =
                    [i \in 1..Len(new_found) |->
                        [title |-> new_found[i][2], id |-> new_found[i][1]]]
        ELSE IF curr_count > prev_count
        THEN Len(NormalMails) = 1 /\ NormalMails[1].kind = "count"
        ELSE NormalMails = <<>>

\* a run has sent the itemized mail for two new records
NotificationDecisionWitness ==
    /\ DecisionTaken
    /\ Len(new_found) = 2
    /\ Len(NormalMails) = 1
    /\ NormalMails[1].kind = "new"
    /\ NormalMails[1].outcome = "sent"

\* C3 (as amended): a run whose extracted records are all already known has
\* curr_count <= prev_count, so no run sends the count mail.
NoCountOnlyIncrease ==
    /\ (committed /\ new_found = <<>>) => curr_count <= prev_count
    /\ \A i \in 1..Len(emails) : emails[i].kind # "count"

\* a run extracted three records, all of them known, counted three rows
\* before it and decided on no mail
NoCountOnlyIncreaseWitness ==
    /\ pc = "done"
    /\ committed
    /\ Len(products) = 3
    /\ new_found = <<>>
    /\ curr_count = 3
    /\ prev_count = 3
    /\ emails = <<>>

\* C3 (as claimed): the runs reach a decision with new_found empty and
\* curr_count > prev_count, and it sends the count mail.
CountOnlyIncreaseReached ==
    <>(/\ DecisionTaken
       /\ new_found = <<>>
       /\ curr_count > prev_count
       /\ Len(NormalMails) = 1
       /\ NormalMails[1].kind = "count")

\* C4: with retries = N and backoff = b the call makes at most N+1 GETs; the
\* wait after the k-th failed attempt, k <= N, is b*k; it returns at the first
\* successful attempt, with as many waits as attempts failed before it; when
\* attempt N+1 fails it raises that error with no further wait or attempt.
FetchRetryContract ==
    /\ Len(outcomes) <= retries + 1
    /\ waits = [k \in 1..Len(waits) |-> backoff * k]
    /\ \A k \in 1..Len(outcomes) - 1 : outcomes[k] \in FetchErrors
    /\ pc = "fetch" =>
        /\ Len(outcomes) = attempt - 1
        /\ Len(waits) = Len(outcomes)
        /\ \A k \in 1..Len(outcomes) : outcomes[k] \in FetchErrors
    /\ pc = "fetch_ret" =>
        /\ outcomes[Len(outcomes)] = "ok"
        /\ Len(waits) = Len(outcomes) - 1
    /\ pc = "fetch_raise" =>
        /\ Len(outcomes) = retries + 1
        /\ Len(waits) = retries
        /\ last_exc = outcomes[Len(outcomes)]
        /\ last_exc \in FetchErrors

\* a fetch that failed twice, waited twice and succeeded on the third GET
FetchRetryWitness ==
    /\ pc = "fetch_ret"
    /\ Len(outcomes) = 3
    /\ Len(waits) = 2
    /\ backoff > 0

\* the records a tier yields: its pairs with a non-empty id, deduplicated
TierRecords(tier) == Dedup(tier)

FirstRecordTier(doc) ==
    IF TierRecords(PrimaryTier(doc)) # <<>> THEN TierRecords(PrimaryTier(doc))
    ELSE IF TierRecords(SecondaryTier(doc)) # <<>>
         THEN TierRecords(SecondaryTier(doc))
    ELSE IF TierRecords(TertiaryTier(doc)) # <<>>
         THEN TierRecords(TertiaryTier(doc))
    ELSE TierRecords(FinalTier(doc))

\* C5: the extractor returns the records of the first tier, in the order
\* primary, secondary, tertiary, fallback, that yields a record (a pair with
\* a non-empty id); the result is empty only when no tier yields one.
FirstRecordTierChosen ==
    pc = "extracted" => products = FirstRecordTier(html.doc)

FirstIndex(ps, id) == MinOf({i \in 1..Len(ps) : ps[i][1] = id})

\* C6: the extractor's list has pairwise distinct, non-empty ids, each with
\* the title of its first occurrence among the chosen tier's candidates, in
\* the order of first occurrence.
DedupFirstTitle ==
    pc = "extracted" =>
        LET c == Candidates(html.doc)
            r == products
        IN /\ Pids(r) = Pids(c) \ {<<>>}
           /\ \A i \in 1..Len(r) : r[i][2] = c[FirstIndex(c, r[i][1])][2]
           /\ \A i, j \in 1..Len(r) :
                i < j => /\ r[i][1] # r[j][1]
                         /\ FirstIndex(c, r[i][1]) < FirstIndex(c, r[j][1])

\* two primary anchors with one id and two titles gave one record, with the
\* first anchor's title
DedupFirstTitleWitness ==
    /\ pc = "extracted"
    /\ Candidates(html.doc) = <<<<S1, TxtA>>, <<S1, <<"b", " ", "a">>>>>>
    /\ products = <<<<S1, TxtA>>>>

\* C7: until a run commits, the rows on disk are those before the run, and
\* stay so when it fails; once it commits, all its inserts and updates are
\* on disk.
AllOrNothing ==
    /\ ~committed => store = store0
    /\ committed => store = ExpectedRows(store0, products, now)

\* a run failed in its loop after it had inserted a record, and has ended
AllOrNothingWitness ==
    /\ pc = "done"
    /\ ~committed
    /\ exc = "Exception"
    /\ idx > 1
    /\ new_found # <<>>
    /\ store = store0

\* C8: whatever is raised in the run, main makes exactly one error mail
\* about it, passes over that mail's failure, and returns.
NeverPropagates ==
    /\ result # "propagated"
    /\ (exc # "none" /\ pc # "done") => pc = "except"
    /\ pc = "except" => exc # "none" /\ ErrorMails = <<>>
    /\ pc = "done" =>
        /\ result = "returned"
        /\ IF exc = "none" THEN ErrorMails = <<>>
           ELSE /\ Len(ErrorMails) = 1
                /\ emails[Len(emails)].kind = "error"
                /\ emails[Len(emails)].body = exc

\* the normal notification failed, the error mail failed too, main returned
NeverPropagatesWitness ==
    /\ pc = "done"
    /\ exc = "SMTPException"
    /\ Len(emails) = 2
    /\ emails[2].kind = "error"
    /\ emails[2].outcome = "failed"
    /\ result = "returned"

StoreInvariant ==
    /\ \A r, q \in store : r.product_id = q.product_id => r = q
    /\ RowIds(store) = initIds \cup (DOMAIN seenAt)
    /\ \A r \in store :
          r.product_id \in DOMAIN seenAt => r.last_seen = seenAt[r.product_id]

NoRowLost ==
    \A r \in store : \E q \in store' :
        q.product_id = r.product_id /\ q.last_seen >= r.last_seen

\* C9: across runs product_id is unique among the rows, no row is deleted,
\* the ids on disk are the initial ones and every id extracted in a committed
\* run, and a row's last_seen never decreases and is the timestamp of the
\* latest committed run that extracted its id.
StoreHistory == [](StoreInvariant) /\ [][NoRowLost]_vars

\* an initial row a later run has stamped, beside an initial row no run has
\* extracted and a row a run has added
StoreHistoryWitness ==
    /\ \E r \in store : r.product_id \in initIds /\ r.last_seen = MaxClock
    /\ \E r \in store : r.product_id \notin DOMAIN seenAt
    /\ \E r \in store : r.product_id \notin initIds /\ r.last_seen < MaxClock
    /\ MaxClock > 0

\* C10: the itemized mail comes after the commit, so the ids it lists are on
\* disk whether or not the send fails, and no id is listed by the itemized
\* mails of two runs.
ListedOnce ==
    /\ relisted = {}
    /\ listed \subseteq RowIds(store)

\* a run extracted, as a known record, an id whose itemized mail had failed
ListedOnceWitness ==
    /\ pc = "done"
    /\ committed
    /\ new_found = <<>>
    /\ Pids(products) \cap unsent # {}

====
